---- MODULE Spec2Model ----
(***************************************************************************)
(* Model of the query-time core of ml_research_assistant:                  *)
(*   app/rag/pipeline.py   RAGPipeline.__init__, RAGPipeline.answer_query   *)
(*   app/rag/reranker.py   Reranker._ensure_model_loaded, rerank,           *)
(*                         compare_retrieval                                *)
(*   app/rag/evaluation.py the five metrics and evaluate_rag                *)
(*   app/rag/retriever.py  Retriever.retrieve (the shape of its result)     *)
(*                                                                         *)
(* Conventions.  An Optional value is a sequence of length 0 (None) or 1.  *)
(* A Python dict is a record; every dict object carries its identity in    *)
(* the field oid (what id() returns).  Distances are kept in tenths, the   *)
(* NDCG discounts in millionths, every quotient as a pair [num, den].      *)
(***************************************************************************)
EXTENDS Integers, Sequences, FiniteSets, TLC

\* ------------------------------------------------------------------ bounds
MaxTopK == 2
NumChunks == 3
MaxScore == 1
MaxLoadAttempts == 2
MaxEvalLen == 3
MaxEvalK == 3
MaxBodyLen == 5
MaxWindow == 3

\* ------------------------------------------------------- Python primitives
None == <<>>
Some(x) == <<x>>
IsNone(o) == o = <<>>
Val(o) == o[1]

Min(a, b) == IF a <= b THEN a ELSE b
Max(a, b) == IF a >= b THEN a ELSE b

\* s[:k] of Python: a negative k counts from the end; k = None keeps all
PySlice(s, k) ==
    LET n == Len(s)
        e == IF k >= 0 THEN Min(k, n) ELSE Max(n + k, 0)
    IN  SubSeq(s, 1, e)

\* truthiness of an Optional[str]: None and "" are both falsy
StrTruthy(o) == ~IsNone(o) /\ Val(o) /= ""

\* truthiness of an Optional[dict]: None and {} are falsy
DictTruthy(o) == ~IsNone(o) /\ DOMAIN Val(o) /= {}

\* str.lower() on one whitespace-separated token
Lower(w) ==
    CASE w = "RAG" -> "rag"
      [] w = "Works" -> "works"
      [] w = "LLM" -> "llm"
      [] OTHER -> w

\* set(text.lower().split()) for a text given as its token sequence
WordSet(tokens) == {Lower(tokens[i]) : i \in 1..Len(tokens)}

\* --------------------------------------------------------------- the corpus
\* what the vector store holds: chunk i of the collection
ChunkTitle(i) == IF i = 1 THEN "paper A" ELSE "paper B"
ChunkText(i) ==
    CASE i % 3 = 1 -> <<"RAG", "Works">>
      [] i % 3 = 2 -> <<"llm">>
      [] OTHER -> <<>>
\* distance of chunk i to the query vector, in tenths (smaller is closer)
Distance(i) == IF i = 1 THEN 2 ELSE 5

TheQuery == <<"rag", "works", "how">>

TopKs == {-1} \cup (0..MaxTopK)
Scores == 0..MaxScore
OptBool == {None, Some(TRUE), Some(FALSE)}
\* what CrossEncoder(...) does when it is called: succeed, or raise e with
\* str(e) the given text
LoadOutcomes == {[ok |-> TRUE, msg |-> ""],
                 [ok |-> FALSE, msg |-> ""],
                 [ok |-> FALSE, msg |-> "no network"]}

\* the constructor can only be reached while self.model is None and there is
\* something to score; otherwise its outcome is never consulted
LoadInputs(r, chunks) ==
    IF chunks /= <<>> /\ r.model = <<>> THEN LoadOutcomes
    ELSE {[ok |-> TRUE, msg |-> ""]}

\* what model.predict can return for the pairs of chunks; without a model
\* there is nothing to ask
ScoreInputs(r, chunks, load) ==
    IF r.model /= <<>> \/ load.ok THEN [1..Len(chunks) -> Scores]
    ELSE {[i \in 1..Len(chunks) |-> 0]}

\* the dict Retriever.retrieve builds for stored chunk i, as its n-th object
RetrievedChunk(i, n) ==
    [oid |-> n, paper_id |-> i, title |-> ChunkTitle(i),
     chunk_text |-> ChunkText(i), score |-> Some(Distance(i))]

\* the lists retrieve(query, top_k = limit) can return: distinct stored
\* chunks in ascending distance; the store honours a positive limit
RetrievedLists(limit) ==
    LET cap == IF limit > 0 THEN Min(limit, NumChunks) ELSE NumChunks
        idx == UNION {[1..n -> 1..NumChunks] : n \in 0..cap}
        ok(f) == /\ \A a, b \in DOMAIN f : a < b =>
                        /\ f[a] /= f[b]
                        /\ Distance(f[a]) <= Distance(f[b])
    IN  {[n \in DOMAIN f |-> RetrievedChunk(f[n], n)] : f \in {g \in idx : ok(g)}}

\* ------------------------------------------------------------- reranker.py
ErrLoadFailed == "RuntimeError: Failed to load reranker model"
ErrLoadCached == "RuntimeError: Reranker model failed to load"
ErrNoneModel == "AttributeError: 'NoneType' object has no attribute 'predict'"
NoError == ""

\* Reranker.__init__
NewReranker == [model |-> None, load_error |-> None]

\* Reranker._ensure_model_loaded on the instance r; load is what the
\* CrossEncoder constructor does if it is called
EnsureModelLoadedRetry(r, load) ==
    IF IsNone(r.model)
    THEN IF load.ok
         THEN [r |-> [r EXCEPT !.model = Some("CrossEncoder")],
               raised |-> NoError, attempted |-> TRUE]
         ELSE [r |-> [r EXCEPT !.load_error = Some(load.msg)],
               raised |-> ErrLoadFailed, attempted |-> TRUE]
    ELSE [r |-> r, raised |-> NoError, attempted |-> FALSE]

EnsureModelLoaded(r, load) ==
    IF IsNone(r.model) /\ IsNone(r.load_error)
    THEN IF load.ok
         THEN [r |-> [r EXCEPT !.model = Some("CrossEncoder")],
               raised |-> NoError, attempted |-> TRUE]
         ELSE [r |-> [r EXCEPT !.load_error = Some(load.msg)],
               raised |-> ErrLoadFailed, attempted |-> TRUE]
    ELSE IF StrTruthy(r.load_error)
         THEN [r |-> r, raised |-> ErrLoadCached, attempted |-> FALSE]
         ELSE [r |-> r, raised |-> NoError, attempted |-> FALSE]

\* a descending sort that puts a later item before its equals
InsertDescBeforeEqual(x, s) ==
    LET p == Cardinality({i \in 1..Len(s) : s[i].rerank_score > x.rerank_score})
    IN  SubSeq(s, 1, p) \o <<x>> \o SubSeq(s, p + 1, Len(s))

\* list.sort(key = rerank_score, reverse = True): stable, descending
InsertAsc(x, s) ==
    LET p == Cardinality({i \in 1..Len(s) : s[i].rerank_score <= x.rerank_score})
    IN  SubSeq(s, 1, p) \o <<x>> \o SubSeq(s, p + 1, Len(s))

InsertDesc(x, s) ==
    LET p == Cardinality({i \in 1..Len(s) : s[i].rerank_score >= x.rerank_score})
    IN  SubSeq(s, 1, p) \o <<x>> \o SubSeq(s, p + 1, Len(s))

RECURSIVE SortDesc(_)
SortDesc(s) ==
    IF s = <<>> THEN <<>>
    ELSE InsertDesc(s[Len(s)], SortDesc(SubSeq(s, 1, Len(s) - 1)))

\* chunk.copy() plus the two annotations; the copy is a new object, so its
\* id differs from the id of every object of the input list
AnnotatedCopyZeroBased(chunks, idx, score) ==
    [oid |-> Len(chunks) + idx,
     paper_id |-> chunks[idx].paper_id,
     title |-> chunks[idx].title,
     chunk_text |-> chunks[idx].chunk_text,
     score |-> chunks[idx].score,
     rerank_score |-> score,
     original_rank |-> idx - 1]

AnnotatedCopy(chunks, idx, score) ==
    [oid |-> Len(chunks) + idx,
     paper_id |-> chunks[idx].paper_id,
     title |-> chunks[idx].title,
     chunk_text |-> chunks[idx].chunk_text,
     score |-> chunks[idx].score,
     rerank_score |-> score,
     original_rank |-> idx]

\* Reranker.rerank(query, chunks, top_k); top_k is Optional; scores[i] is
\* what model.predict returns for the pair (query, chunks[i].chunk_text)
RerankNoEmptyGuard(r, query, chunks, top_k, load, scores) ==
    LET ens == EnsureModelLoaded(r, load)
    IN  IF ens.raised /= NoError
        THEN [r |-> ens.r, raised |-> ens.raised, attempted |-> ens.attempted,
              predicted |-> FALSE, value |-> <<>>]
        ELSE IF IsNone(ens.r.model)
        THEN [r |-> ens.r, raised |-> ErrNoneModel, attempted |-> ens.attempted,
              predicted |-> FALSE, value |-> <<>>]
        ELSE LET reranked == SortDesc([i \in 1..Len(chunks) |->
                                         AnnotatedCopy(chunks, i, scores[i])])
             IN  [r |-> ens.r, raised |-> NoError, attempted |-> ens.attempted,
                  predicted |-> TRUE,
                  value |-> IF IsNone(top_k) THEN reranked
                            ELSE PySlice(reranked, Val(top_k))]

Rerank(r, query, chunks, top_k, load, scores) ==
    IF chunks = <<>>
    THEN [r |-> r, raised |-> NoError, attempted |-> FALSE,
          predicted |-> FALSE, value |-> <<>>]
    ELSE LET ens == EnsureModelLoaded(r, load)
         IN  IF ens.raised /= NoError
             THEN [r |-> ens.r, raised |-> ens.raised, attempted |-> ens.attempted,
                   predicted |-> FALSE, value |-> <<>>]
             ELSE IF IsNone(ens.r.model)
             THEN [r |-> ens.r, raised |-> ErrNoneModel, attempted |-> ens.attempted,
                   predicted |-> FALSE, value |-> <<>>]
             ELSE LET reranked == SortDesc([i \in 1..Len(chunks) |->
                                              AnnotatedCopy(chunks, i, scores[i])])
                  IN  [r |-> ens.r, raised |-> NoError, attempted |-> ens.attempted,
                       predicted |-> TRUE,
                       value |-> IF IsNone(top_k) THEN reranked
                                 ELSE PySlice(reranked, Val(top_k))]

\* the position_changes count of compare_retrieval over id() values
PositionChanges(original_top, reranked_top) ==
    Cardinality({i \in 1..Len(reranked_top) :
        reranked_top[i].oid \notin
            {original_top[j].oid : j \in 1..Min(i, Len(original_top))}})

RECURSIVE SumScores(_)
SumScores(s) ==
    IF s = <<>> THEN 0 ELSE s[1].rerank_score + SumScores(Tail(s))

\* Reranker.compare_retrieval(query, original_chunks, top_k)
CompareRetrieval(r, query, original_chunks, top_k, load, scores) ==
    LET rr == Rerank(r, query, original_chunks, Some(top_k), load, scores)
        original_top == PySlice(original_chunks, top_k)
        reranked_top == PySlice(rr.value, top_k)
    IN  IF rr.raised /= NoError
        THEN [r |-> rr.r, raised |-> rr.raised, attempted |-> rr.attempted,
              predicted |-> rr.predicted, value |-> None]
        ELSE [r |-> rr.r, raised |-> NoError, attempted |-> rr.attempted,
              predicted |-> rr.predicted,
              value |-> Some([original |-> original_top,
                              reranked |-> reranked_top,
                              position_changes |->
                                  PositionChanges(original_top, reranked_top),
                              avg_rerank_score |->
                                  IF reranked_top /= <<>>
                                  THEN [num |-> SumScores(reranked_top),
                                        den |-> Len(reranked_top)]
                                  ELSE [num |-> 0, den |-> 1]])]

\* ------------------------------------------------------------ evaluation.py
Rat(n, d) == [num |-> n, den |-> d]
Zero == Rat(0, 1)

\* number of items of s that are in the set rel
CountRelevant(s, rel) == Cardinality({i \in 1..Len(s) : s[i] \in rel})

precision_at_k_NoGuard(retrieved, relevant, k) ==
    Rat(CountRelevant(PySlice(retrieved, k), relevant), k)

precision_at_k(retrieved, relevant, k) ==
    IF k = 0 THEN Zero
    ELSE Rat(CountRelevant(PySlice(retrieved, k), relevant), k)

recall_at_k(retrieved, relevant, k) ==
    IF Cardinality(relevant) = 0 THEN Zero
    ELSE Rat(CountRelevant(PySlice(retrieved, k), relevant), Cardinality(relevant))

mean_reciprocal_rank_ZeroBased(retrieved, relevant) ==
    LET hits == {i \in 1..Len(retrieved) : retrieved[i] \in relevant}
    IN  IF hits = {} THEN Zero
        ELSE Rat(1, (CHOOSE i \in hits : \A j \in hits : i <= j) - 1)

mean_reciprocal_rank(retrieved, relevant) ==
    LET hits == {i \in 1..Len(retrieved) : retrieved[i] \in relevant}
    IN  IF hits = {} THEN Zero
        ELSE Rat(1, CHOOSE i \in hits : \A j \in hits : i <= j)

\* 1 / log2(rank + 1) in millionths
Discount(rank) ==
    CASE rank = 1 -> 1000000
      [] rank = 2 -> 630930
      [] rank = 3 -> 500000
      [] rank = 4 -> 430677
      [] rank = 5 -> 386853
      [] rank = 6 -> 356207
      [] rank = 7 -> 333333
      [] OTHER -> 315465

RECURSIVE SumDiscount(_)
SumDiscount(ranks) ==
    IF ranks = {} THEN 0
    ELSE LET x == CHOOSE y \in ranks : TRUE
         IN  Discount(x) + SumDiscount(ranks \ {x})

\* an ideal ranking that holds every relevant item, also beyond rank k
ndcg_at_k_IdealOverAll(retrieved, relevant, k) ==
    IF k = 0 \/ Cardinality(relevant) = 0 THEN Zero
    ELSE LET top == PySlice(retrieved, k)
             dcg == SumDiscount({i \in 1..Len(top) : top[i] \in relevant})
             idcg == SumDiscount(1..Cardinality(relevant))
         IN  IF idcg > 0 THEN Rat(dcg, idcg) ELSE Zero

ndcg_at_k(retrieved, relevant, k) ==
    IF k = 0 \/ Cardinality(relevant) = 0 THEN Zero
    ELSE LET top == PySlice(retrieved, k)
             dcg == SumDiscount({i \in 1..Len(top) : top[i] \in relevant})
             num_relevant == Min(Cardinality(relevant), k)
             idcg == SumDiscount(1..num_relevant)
         IN  IF idcg > 0 THEN Rat(dcg, idcg) ELSE Zero

f1_score_at_k(retrieved, relevant, k) ==
    LET precision == precision_at_k(retrieved, relevant, k)
        recall == recall_at_k(retrieved, relevant, k)
        \* precision + recall, and 2 * precision * recall, over den * den
        sum == precision.num * recall.den + recall.num * precision.den
    IN  IF sum = 0 THEN Zero
        ELSE Rat(2 * precision.num * recall.num, sum)

\* "chunk_<i>" for the 0-based position i
ChunkId(i) == <<"chunk", i>>

\* a relevance test that reads the score with "or 1.0": 0 counts as missing
IsRelevantScoreOrDefault(chunk, query_words) ==
    LET score == IF IsNone(chunk.score) \/ Val(chunk.score) = 0 THEN 10
                 ELSE Val(chunk.score)
        chunk_words == WordSet(chunk.chunk_text)
        common == Cardinality(query_words \cap chunk_words)
        total == Max(Cardinality(query_words), 1)
    IN  score < 5 \/ 10 * common > 3 * total

\* the relevance test of evaluate_rag for one chunk
IsRelevant(chunk, query_words) ==
    LET score == IF IsNone(chunk.score) THEN 10 ELSE Val(chunk.score)
        chunk_words == WordSet(chunk.chunk_text)
        common == Cardinality(query_words \cap chunk_words)
        total == Max(Cardinality(query_words), 1)
    IN  score < 5 \/ 10 * common > 3 * total

\* a relevance set judged over the whole list instead of the window
EvalRelevantIdsWholeList(retrieved_chunks, query, k) ==
    LET query_words == WordSet(query)
    IN  {ChunkId(i - 1) : i \in
            {j \in 1..Len(retrieved_chunks) :
                 IsRelevant(retrieved_chunks[j], query_words)}}

\* relevant_ids after the loop of evaluate_rag
EvalRelevantIds(retrieved_chunks, query, k) ==
    LET query_words == WordSet(query)
        window == PySlice(retrieved_chunks, k)
    IN  {ChunkId(i - 1) : i \in
            {j \in 1..Len(window) : IsRelevant(window[j], query_words)}}

evaluate_rag(retrieved_chunks, query, k) ==
    LET window == PySlice(retrieved_chunks, k)
        chunk_ids == [i \in 1..Len(window) |-> ChunkId(i - 1)]
        relevant_ids == EvalRelevantIds(retrieved_chunks, query, k)
    IN  [precision |-> precision_at_k(chunk_ids, relevant_ids, k),
         recall |-> recall_at_k(chunk_ids, relevant_ids, k),
         mrr |-> mean_reciprocal_rank(chunk_ids, relevant_ids),
         ndcg |-> ndcg_at_k(chunk_ids, relevant_ids, k),
         f1 |-> f1_score_at_k(chunk_ids, relevant_ids, k)]

\* -------------------------------------------------------------- pipeline.py
VARIABLES
    ctor_reranker,        \* __init__ was given a reranker argument
    self_reranker,        \* self.reranker: "None", "supplied" or "default"
    self_use_reranking,   \* self.use_reranking
    self_use_evaluation,  \* self.use_evaluation
    reranker,             \* model and _load_error of the instance self.reranker
    loadAttempts,         \* calls of the CrossEncoder constructor so far
    loadFailedInQuery,    \* an answer_query call has failed on the model load
    pc,                   \* position inside answer_query
    args,                 \* arguments of the current answer_query call
    afterFail,            \* loadFailedInQuery when the current call began
    should_rerank,
    retrieve_k,
    original_contexts,
    contexts,
    reranking_comparison,
    answer,
    evaluation_metrics,
    result,               \* the RAGResult returned, None until then
    error,                \* the exception that left answer_query
    trace,                \* collaborators invoked by the current call, in order
    retrieveCalls,        \* top_k of each retriever.retrieve call of this call
    generateCalls,        \* contexts of each llm.generate_answer call
    op                    \* the last call made on a component directly

pipelineVars == <<ctor_reranker, self_reranker, self_use_reranking, self_use_evaluation>>
rerankerVars == <<reranker, loadAttempts, loadFailedInQuery>>
frameVars == <<pc, args, afterFail, should_rerank, retrieve_k, original_contexts,
               contexts, reranking_comparison, answer, evaluation_metrics, result,
               error, trace, retrieveCalls, generateCalls>>
vars == <<pipelineVars, rerankerVars, frameVars, op>>

NoArgs == [query |-> <<>>, top_k |-> 0, use_reranking |-> None, use_evaluation |-> None]
NoOp == [name |-> "none"]

\* self.reranker = reranker or Reranker() if use_reranking else None
CtorReranker(supplied, use_reranking) ==
    IF use_reranking
    THEN IF supplied THEN "supplied" ELSE "default"
    ELSE "None"

\* x if x is not None else default
EffectiveOr(arg, default) == (~IsNone(arg) /\ Val(arg)) \/ default

Effective(arg, default) == IF ~IsNone(arg) THEN Val(arg) ELSE default

\* retrieve_k = top_k * 2 if should_rerank else top_k
RetrieveKDouble(top_k, rerank) == top_k * 2

RetrieveK(top_k, rerank) == IF rerank THEN top_k * 2 ELSE top_k

\* the statement order of answer_query: the stage that follows stage
NextStageNoRerank(stage, rerank, evaluate) ==
    CASE stage = "retrieve" -> "generate"
      [] stage = "rerank" -> "generate"
      [] stage = "generate" -> IF evaluate THEN "evaluate" ELSE "assemble"
      [] stage = "evaluate" -> "assemble"
      [] OTHER -> "done"

NextStage(stage, rerank, evaluate) ==
    CASE stage = "retrieve" -> IF rerank THEN "rerank" ELSE "generate"
      [] stage = "rerank" -> "generate"
      [] stage = "generate" -> IF evaluate THEN "evaluate" ELSE "assemble"
      [] stage = "evaluate" -> "assemble"
      [] OTHER -> "done"

\* the argument of self.llm.generate_answer
GenerateArgAll(ctxs, top_k) == ctxs

GenerateArg(ctxs, top_k) == PySlice(ctxs, top_k)

\* the RAGResult(...) expression that ends answer_query
RAGResultByList(query, ans, ctxs, orig, top_k, metrics, comparison) ==
    LET ran == ~IsNone(comparison) /\ Val(comparison).reranked /= <<>>
    IN  [query |-> query,
         answer |-> ans,
         contexts |-> PySlice(ctxs, top_k),
         original_contexts |-> IF ran THEN Some(PySlice(orig, top_k)) ELSE None,
         reranked_contexts |-> IF ran THEN Some(PySlice(ctxs, top_k)) ELSE None,
         evaluation_metrics |-> metrics,
         reranking_comparison |-> comparison]

RAGResult(query, ans, ctxs, orig, top_k, metrics, comparison) ==
    [query |-> query,
     answer |-> ans,
     contexts |-> PySlice(ctxs, top_k),
     original_contexts |->
         IF DictTruthy(comparison) THEN Some(PySlice(orig, top_k)) ELSE None,
     reranked_contexts |->
         IF DictTruthy(comparison) THEN Some(PySlice(ctxs, top_k)) ELSE None,
     evaluation_metrics |-> metrics,
     reranking_comparison |-> comparison]

Bump(n) == IF n < MaxLoadAttempts THEN n + 1 ELSE n

Init ==
    /\ ctor_reranker \in BOOLEAN
    /\ self_use_reranking \in BOOLEAN
    /\ self_use_evaluation \in BOOLEAN
    /\ self_reranker = CtorReranker(ctor_reranker, self_use_reranking)
    /\ reranker = NewReranker
    /\ loadAttempts = 0
    /\ loadFailedInQuery = FALSE
    /\ pc = "idle"
    /\ args = NoArgs
    /\ afterFail = FALSE
    /\ should_rerank = FALSE
    /\ retrieve_k = 0
    /\ original_contexts = <<>>
    /\ contexts = <<>>
    /\ reranking_comparison = None
    /\ answer = None
    /\ evaluation_metrics = None
    /\ result = None
    /\ error = NoError
    /\ trace = <<>>
    /\ retrieveCalls = <<>>
    /\ generateCalls = <<>>
    /\ op = NoOp

\* answer_query is entered: lines 36-59
AnswerQuery(top_k, use_reranking, use_evaluation) ==
    /\ pc = "idle"
    /\ args' = [query |-> TheQuery, top_k |-> top_k,
                use_reranking |-> use_reranking, use_evaluation |-> use_evaluation]
    /\ afterFail' = loadFailedInQuery
    /\ should_rerank' = Effective(use_reranking, self_use_reranking)
    /\ retrieve_k' = RetrieveK(top_k, should_rerank')
    /\ original_contexts' = <<>>
    /\ contexts' = <<>>
    /\ reranking_comparison' = None
    /\ answer' = None
    /\ evaluation_metrics' = None
    /\ result' = None
    /\ error' = NoError
    /\ trace' = <<>>
    /\ retrieveCalls' = <<>>
    /\ generateCalls' = <<>>
    /\ pc' = "retrieve"
    /\ UNCHANGED <<pipelineVars, rerankerVars, op>>

\* original_contexts = self.retriever.retrieve(query, top_k=retrieve_k)
Retrieve ==
    /\ pc = "retrieve"
    /\ trace' = Append(trace, "retrieve")
    /\ retrieveCalls' = Append(retrieveCalls, retrieve_k)
    /\ \/ /\ \E chunks \in RetrievedLists(retrieve_k) :
                /\ original_contexts' = chunks
                /\ contexts' = chunks
          /\ pc' = NextStage("retrieve", should_rerank, FALSE)
          /\ UNCHANGED error
       \/ /\ error' = "RetrieverError"
          /\ pc' = "raised"
          /\ UNCHANGED <<original_contexts, contexts>>
    /\ UNCHANGED <<pipelineVars, rerankerVars, args, afterFail, should_rerank,
                   retrieve_k, reranking_comparison, answer, evaluation_metrics,
                   result, generateCalls, op>>

\* the instance the rerank stage works on: self.reranker, or the Reranker()
\* created on demand when self.reranker is None
CurrentReranker == IF self_reranker = "None" THEN NewReranker ELSE reranker

\* lines 65-71: the reranker is created on demand, then compare_retrieval
RerankStage ==
    /\ pc = "rerank"
    /\ trace' = Append(trace, "rerank")
    /\ \E load \in LoadInputs(CurrentReranker, original_contexts) :
       \E scores \in ScoreInputs(CurrentReranker, original_contexts, load) :
         LET c == CompareRetrieval(CurrentReranker, args.query, original_contexts,
                                   args.top_k, load, scores)
         IN  /\ self_reranker' = IF self_reranker = "None" THEN "default"
                                 ELSE self_reranker
             /\ reranker' = c.r
             /\ loadAttempts' = IF c.attempted THEN Bump(loadAttempts)
                                ELSE loadAttempts
             /\ loadFailedInQuery' = (loadFailedInQuery \/ c.raised = ErrLoadFailed)
             /\ IF c.raised /= NoError
                THEN /\ error' = c.raised
                     /\ pc' = "raised"
                     /\ UNCHANGED <<reranking_comparison, contexts>>
                ELSE /\ reranking_comparison' = c.value
                     /\ contexts' = Val(c.value).reranked
                     /\ pc' = NextStage("rerank", should_rerank, FALSE)
                     /\ UNCHANGED error
    /\ UNCHANGED <<ctor_reranker, self_use_reranking, self_use_evaluation, args,
                   afterFail, should_rerank, retrieve_k, original_contexts, answer,
                   evaluation_metrics, result, retrieveCalls, generateCalls, op>>

\* answer = self.llm.generate_answer(query, contexts[:top_k])
Generate ==
    /\ pc = "generate"
    /\ trace' = Append(trace, "generate")
    /\ generateCalls' = Append(generateCalls, GenerateArg(contexts, args.top_k))
    /\ \/ /\ answer' = Some("answer")
          /\ pc' = NextStage("generate", should_rerank,
                             Effective(args.use_evaluation, self_use_evaluation))
          /\ UNCHANGED error
       \/ /\ error' = "LLMError"
          /\ pc' = "raised"
          /\ UNCHANGED answer
    /\ UNCHANGED <<pipelineVars, rerankerVars, args, afterFail, should_rerank,
                   retrieve_k, original_contexts, contexts, reranking_comparison,
                   evaluation_metrics, result, retrieveCalls, op>>

\* evaluation_metrics = evaluate_rag(contexts[:top_k], query, k=top_k)
Evaluate ==
    /\ pc = "evaluate"
    /\ trace' = Append(trace, "evaluate")
    /\ evaluation_metrics' =
           Some(evaluate_rag(PySlice(contexts, args.top_k), args.query, args.top_k))
    /\ pc' = NextStage("evaluate", should_rerank, TRUE)
    /\ UNCHANGED <<pipelineVars, rerankerVars, args, afterFail, should_rerank,
                   retrieve_k, original_contexts, contexts, reranking_comparison,
                   answer, result, error, retrieveCalls, generateCalls, op>>

\* return RAGResult(...)
Assemble ==
    /\ pc = "assemble"
    /\ result' = Some(RAGResult(args.query, Val(answer), contexts, original_contexts,
                                args.top_k, evaluation_metrics, reranking_comparison))
    /\ pc' = NextStage("assemble", should_rerank, FALSE)
    /\ UNCHANGED <<pipelineVars, rerankerVars, args, afterFail, should_rerank,
                   retrieve_k, original_contexts, contexts, reranking_comparison,
                   answer, evaluation_metrics, error, trace, retrieveCalls,
                   generateCalls, op>>

\* the caller has the result, or has caught the exception: the frame of the
\* finished call is gone
Return ==
    /\ pc \in {"done", "raised", "op_done"}
    /\ pc' = "idle"
    /\ args' = NoArgs
    /\ afterFail' = FALSE
    /\ should_rerank' = FALSE
    /\ retrieve_k' = 0
    /\ original_contexts' = <<>>
    /\ contexts' = <<>>
    /\ reranking_comparison' = None
    /\ answer' = None
    /\ evaluation_metrics' = None
    /\ result' = None
    /\ error' = NoError
    /\ trace' = <<>>
    /\ retrieveCalls' = <<>>
    /\ generateCalls' = <<>>
    /\ op' = NoOp
    /\ UNCHANGED <<pipelineVars, rerankerVars>>

\* a caller invokes self.reranker.rerank(query, chunks, top_k) itself
RerankCall(chunks, top_k) ==
    /\ pc = "idle"
    /\ self_reranker /= "None"
    /\ \E load \in LoadInputs(reranker, chunks) :
       \E scores \in ScoreInputs(reranker, chunks, load) :
         LET rr == Rerank(reranker, TheQuery, chunks, top_k, load, scores)
         IN  /\ reranker' = rr.r
             /\ loadAttempts' = IF rr.attempted THEN Bump(loadAttempts)
                                ELSE loadAttempts
             /\ op' = [name |-> "rerank", before |-> reranker, chunks |-> chunks,
                       top_k |-> top_k, scores |-> scores, raised |-> rr.raised,
                       predicted |-> rr.predicted, attempted |-> rr.attempted,
                       value |-> rr.value]
    /\ pc' = "op_done"
    /\ UNCHANGED <<pipelineVars, loadFailedInQuery, args, afterFail, should_rerank,
                   retrieve_k, original_contexts, contexts, reranking_comparison,
                   answer, evaluation_metrics, result, error, trace, retrieveCalls,
                   generateCalls>>

\* a caller invokes self.reranker.compare_retrieval(query, chunks, top_k) itself
CompareRetrievalCall(chunks, top_k) ==
    /\ pc = "idle"
    /\ self_reranker /= "None"
    /\ \E load \in LoadInputs(reranker, chunks) :
       \E scores \in ScoreInputs(reranker, chunks, load) :
         LET c == CompareRetrieval(reranker, TheQuery, chunks, top_k, load, scores)
         IN  /\ reranker' = c.r
             /\ loadAttempts' = IF c.attempted THEN Bump(loadAttempts)
                                ELSE loadAttempts
             /\ op' = [name |-> "compare_retrieval", before |-> reranker,
                       chunks |-> chunks, top_k |-> Some(top_k), scores |-> scores,
                       raised |-> c.raised,
                       predicted |-> c.predicted, attempted |-> c.attempted,
                       value |-> c.value]
    /\ pc' = "op_done"
    /\ UNCHANGED <<pipelineVars, loadFailedInQuery, args, afterFail, should_rerank,
                   retrieve_k, original_contexts, contexts, reranking_comparison,
                   answer, evaluation_metrics, result, error, trace, retrieveCalls,
                   generateCalls>>

Next ==
    \/ \E top_k \in TopKs, ur \in OptBool, ue \in OptBool : AnswerQuery(top_k, ur, ue)
    \/ Retrieve
    \/ RerankStage
    \/ Generate
    \/ Evaluate
    \/ Assemble
    \/ Return
    \/ \E chunks \in RetrievedLists(0), top_k \in {None} \cup {Some(k) : k \in TopKs} :
           RerankCall(chunks, top_k)
    \/ \E chunks \in RetrievedLists(0), top_k \in TopKs :
           CompareRetrievalCall(chunks, top_k)

Spec == Init /\ [][Next]_vars

TypeOK ==
    /\ pc \in {"idle", "retrieve", "rerank", "generate", "evaluate", "assemble",
               "done", "raised", "op_done"}
    /\ self_reranker \in {"None", "supplied", "default"}
    /\ loadAttempts \in 0..MaxLoadAttempts

\* ------------------------------------------------------------------ claims
\* the flags as the caller means them: the argument when one is given
EffRerank ==
    IF args.use_reranking = None THEN self_use_reranking ELSE args.use_reranking[1]
EffEvaluate ==
    IF args.use_evaluation = None THEN self_use_evaluation ELSE args.use_evaluation[1]

FirstK(s, k) == SubSeq(s, 1, IF k < Len(s) THEN k ELSE Len(s))

IsPrefix(s, t) == Len(s) <= Len(t) /\ s = SubSeq(t, 1, Len(s))

InQuery == pc \notin {"idle", "op_done"}

\* C1: a returned answer_query result has original_contexts and
\* reranked_contexts both None when the effective reranking flag is false, and
\* both present, with contexts = reranked_contexts, when it is true (also when
\* retrieval returned no candidates)
C1_RerankFields ==
    pc = "done" =>
        LET res == result[1]
        IN  IF EffRerank
            THEN /\ res.original_contexts /= None
                 /\ res.reranked_contexts /= None
                 /\ res.contexts = res.reranked_contexts[1]
            ELSE /\ res.original_contexts = None
                 /\ res.reranked_contexts = None

C1_Witness ==
    /\ pc = "done"
    /\ EffRerank
    /\ original_contexts = <<>>
    /\ result[1].reranked_contexts = <<(<<>>)>>

\* C2: for top_k >= 0 the returned contexts has at most top_k items and is the
\* list handed to generate_answer: the first top_k items of the reranked list
\* when reranking ran, of the raw retrieval otherwise
C2_ContextsAreGenerated ==
    (pc = "done" /\ args.top_k >= 0) =>
        LET res == result[1]
            current == IF EffRerank THEN reranking_comparison[1].reranked
                       ELSE original_contexts
        IN  /\ Len(res.contexts) <= args.top_k
            /\ generateCalls = <<res.contexts>>
            /\ res.contexts = FirstK(current, args.top_k)

C2_Witness ==
    /\ pc = "done"
    /\ args.top_k = 1
    /\ EffRerank
    /\ Len(original_contexts) = 2
    /\ Len(result[1].contexts) = 1
    /\ generateCalls = <<result[1].contexts>>

\* the count the specification describes: positions of the reranked top-k
\* whose candidate is not among the first i+1 candidates of the original list;
\* original_rank tells which original candidate a reranked item is
PromotedSlots(reranked_top) ==
    Cardinality({i \in 1..Len(reranked_top) : reranked_top[i].original_rank > i})

\* the results of compare_retrieval calls with top_k >= 0 that are at hand:
\* the one of the rerank stage, and the one of a direct call
ComparisonsMade ==
    (IF InQuery /\ reranking_comparison /= None /\ args.top_k >= 0
     THEN {reranking_comparison[1]} ELSE {})
    \cup (IF /\ pc = "op_done"
             /\ op.name = "compare_retrieval"
             /\ op.value /= None
             /\ op.top_k[1] >= 0
          THEN {op.value[1]} ELSE {})

\* C3: position_changes of compare_retrieval is the number of positions i of
\* the reranked top-k whose candidate is not one of the first i+1 candidates
\* of the original list
C3_PositionChangesCountsPromoted ==
    \A c \in ComparisonsMade : c.position_changes = PromotedSlots(c.reranked)

\* C4: when the reranked order of the top-k equals their original retrieval
\* order, compare_retrieval reports position_changes = 0
C4_SameOrderNoChanges ==
    \A c \in ComparisonsMade :
        (\A i \in 1..Len(c.reranked) : c.reranked[i].original_rank = i)
            => c.position_changes = 0

\* C5: once the model load has failed, every later rerank or
\* compare_retrieval call with a non-empty list raises the
\* reranker-unavailable error and does not reach the scoring model
C5_FailureIsReRaised ==
    (/\ pc = "op_done"
     /\ op.before.load_error /= None
     /\ op.chunks /= <<>>)
        => /\ op.raised \in {ErrLoadFailed, ErrLoadCached}
           /\ ~op.predicted

HandleOf(r) ==
    IF r.model /= None THEN "loaded"
    ELSE IF r.load_error /= None THEN "failed"
    ELSE "unloaded"

\* C6: the model load of the instance is attempted at most once; the handle
\* moves only unloaded -> loaded or unloaded -> failed and never leaves
\* loaded or failed
C6_LoadOnce ==
    [][/\ loadAttempts' <= 1
       /\ HandleOf(reranker) /= "unloaded" =>
              /\ HandleOf(reranker') = HandleOf(reranker)
              /\ loadAttempts' = loadAttempts
       /\ HandleOf(reranker') /= HandleOf(reranker) =>
              loadAttempts' = loadAttempts + 1]_vars

C6_Witness ==
    /\ pc = "op_done"
    /\ op.chunks /= <<>>
    /\ HandleOf(op.before) = "failed"
    /\ HandleOf(reranker) = "failed"
    /\ loadAttempts = 1

ExpectedStages ==
    <<"retrieve">> \o (IF EffRerank THEN <<"rerank">> ELSE <<>>)
        \o <<"generate">> \o (IF EffEvaluate THEN <<"evaluate">> ELSE <<>>)

StageErrors(stage) ==
    CASE stage = "retrieve" -> {"RetrieverError"}
      [] stage = "rerank" -> {ErrLoadFailed, ErrLoadCached, ErrNoneModel}
      [] stage = "generate" -> {"LLMError"}
      [] OTHER -> {}

\* C7: the stages of one answer_query call run in the order retrieve, rerank
\* (only when the effective reranking flag is true), generate, evaluate (only
\* when the effective evaluation flag is true), assemble; when a stage raises
\* no later stage is invoked, nothing is returned and the caller gets that
\* stage's error
C7_StageOrder ==
    /\ [](InQuery =>
            /\ IsPrefix(trace, ExpectedStages)
            /\ pc = "done" => /\ trace = ExpectedStages
                              /\ result /= None
                              /\ error = NoError
            /\ pc = "raised" => /\ trace /= <<>>
                                /\ result = None
                                /\ error \in StageErrors(trace[Len(trace)])
            /\ pc \notin {"done", "raised"} => result = None /\ error = NoError)
    /\ [][pc = "raised" => (pc' = "idle" /\ trace' = <<>>)]_vars

C7_Witness ==
    /\ pc = "raised"
    /\ error = "LLMError"
    /\ EffRerank
    /\ EffEvaluate
    /\ trace = <<"retrieve", "rerank", "generate">>

NoRerankFields(res) ==
    /\ res.original_contexts = None
    /\ res.reranked_contexts = None
    /\ res.reranking_comparison = None

\* what C8 says of a call without reranking that follows the failure
C8_FallbackPart ==
    /\ IsPrefix(retrieveCalls, <<args.top_k>>)
    /\ \A i \in 1..Len(trace) : trace[i] /= "rerank"
    /\ pc = "done" => /\ Len(generateCalls) = 1
                      /\ NoRerankFields(result[1])

\* C8 as stated: after an answer_query call has failed on the model load, a
\* following call with use_reranking=False requests top_k candidates,
\* generates without the reranker and returns no reranking fields; a
\* following call with reranking enabled fails again without a new load
C8_Original ==
    (InQuery /\ afterFail) =>
        /\ loadAttempts = 1
        /\ IF EffRerank THEN pc /= "done" ELSE C8_FallbackPart

\* C8 as amended: the call with reranking enabled fails again when its
\* retrieval returned at least one candidate; with no candidates it returns
\* (rerank of an empty list never consults the model); either way no new load
C8_FallbackAfterLoadFailure ==
    (InQuery /\ afterFail) =>
        /\ loadAttempts = 1
        /\ IF EffRerank
           THEN /\ pc = "done" => original_contexts = <<>>
                /\ pc \in {"generate", "evaluate", "assemble"} =>
                       original_contexts = <<>>
           ELSE C8_FallbackPart

C8_Witness ==
    /\ afterFail
    /\ pc = "raised"
    /\ EffRerank
    /\ original_contexts /= <<>>
    /\ error = ErrLoadCached
    /\ loadAttempts = 1

\* C9: answer_query calls the retriever exactly once, for 2*top_k candidates
\* when the effective reranking flag is true and for top_k when it is false
C9_RetrieveOnce ==
    InQuery =>
        IF pc = "retrieve" THEN retrieveCalls = <<>>
        ELSE retrieveCalls = <<IF EffRerank THEN 2 * args.top_k ELSE args.top_k>>

C9_Witness ==
    /\ pc = "done"
    /\ ~EffRerank
    /\ args.top_k = 2
    /\ retrieveCalls = <<2>>

\* C10: the effective use_reranking / use_evaluation is the per-call argument
\* when one is given (True or False) and the pipeline default only when it is
\* omitted; reranking runs and evaluation_metrics is present exactly when the
\* effective value is true
C10_FlagResolution ==
    InQuery =>
        /\ should_rerank = EffRerank
        /\ pc = "done" =>
              /\ (\E i \in 1..Len(trace) : trace[i] = "rerank") <=> EffRerank
              /\ (result[1].reranking_comparison /= None) <=> EffRerank
              /\ (result[1].evaluation_metrics /= None) <=> EffEvaluate

C10_Witness ==
    /\ pc = "done"
    /\ args.use_reranking = <<FALSE>>
    /\ self_use_reranking
    /\ args.use_evaluation = <<FALSE>>
    /\ self_use_evaluation
    /\ result[1].evaluation_metrics = None
    /\ result[1].reranking_comparison = None

RerankDone == pc = "op_done" /\ op.name = "rerank"

\* C11: rerank of an empty candidate list returns an empty list without
\* loading or invoking the scoring model, whatever the state of the model
\* handle, and leaves that state as it was
C11_EmptyInEmptyOut ==
    (RerankDone /\ op.chunks = <<>>) =>
        /\ op.raised = NoError
        /\ op.value = <<>>
        /\ ~op.attempted
        /\ ~op.predicted
        /\ reranker = op.before
        /\ HandleOf(reranker) = HandleOf(op.before)

C11_Witness ==
    /\ RerankDone
    /\ op.chunks = <<>>
    /\ HandleOf(op.before) = "failed"
    /\ op.before.load_error = <<"">>
    /\ op.value = <<>>

\* the item x of a rerank result is the input candidate of rank
\* x.original_rank with its fields unchanged and the model's score for it
IsAnnotated(x, chunks, scores) ==
    /\ x.original_rank \in 1..Len(chunks)
    /\ LET c == chunks[x.original_rank]
       IN  /\ x.paper_id = c.paper_id
           /\ x.title = c.title
           /\ x.chunk_text = c.chunk_text
           /\ x.score = c.score
           /\ x.rerank_score = scores[x.original_rank]

\* C12: rerank without top_k returns a permutation of its input, every
\* candidate once, fields unchanged, with rerank_score the model's score of
\* that candidate and original_rank its 1-based input position; with a top_k
\* (a number of results, >= 0) it returns the first top_k items of that
\* ordering
C12_RerankIsAnnotatedPermutation ==
    (RerankDone /\ op.raised = NoError) =>
        IF op.top_k = None
        THEN /\ Len(op.value) = Len(op.chunks)
             /\ \A i \in 1..Len(op.value) : IsAnnotated(op.value[i], op.chunks, op.scores)
             /\ \A j \in 1..Len(op.chunks) :
                    Cardinality({i \in 1..Len(op.value) :
                                    op.value[i].original_rank = j}) = 1
        ELSE op.top_k[1] >= 0 =>
                 op.value = FirstK(Rerank(op.before, TheQuery, op.chunks, None,
                                          [ok |-> TRUE, msg |-> ""], op.scores).value,
                                   op.top_k[1])

C12_Witness ==
    /\ RerankDone
    /\ op.raised = NoError
    /\ op.top_k = None
    /\ Len(op.chunks) = 2
    /\ Len(op.value) = 2
    /\ op.value[1].original_rank = 2
    /\ op.value[2].original_rank = 1

\* every reranked list at hand: the result of a direct rerank call, and the
\* reranked list of a compare_retrieval result
RerankedLists ==
    (IF RerankDone /\ op.raised = NoError THEN {op.value} ELSE {})
    \cup (IF pc = "op_done" /\ op.name = "compare_retrieval" /\ op.value /= None
          THEN {op.value[1].reranked} ELSE {})
    \cup (IF InQuery /\ reranking_comparison /= None
          THEN {reranking_comparison[1].reranked} ELSE {})

\* C13: in every list returned by rerank, and in the reranked list of
\* compare_retrieval, rerank_score does not increase from one position to
\* the next
C13_ScoresNonIncreasing ==
    \A l \in RerankedLists :
        \A i \in 1..(Len(l) - 1) : l[i].rerank_score >= l[i + 1].rerank_score

C13_Witness ==
    /\ RerankDone
    /\ op.raised = NoError
    /\ Len(op.value) >= 2
    /\ op.scores[1] < op.scores[2]
    /\ op.value[1].rerank_score > op.value[2].rerank_score

\* ------------------------------------------- the components called directly
\* the state in which a component function is called on its own: a pipeline
\* that is not in a query
LibraryInit ==
    /\ ctor_reranker = FALSE
    /\ self_use_reranking = FALSE
    /\ self_use_evaluation = FALSE
    /\ self_reranker = CtorReranker(FALSE, FALSE)
    /\ reranker = NewReranker
    /\ loadAttempts = 0
    /\ loadFailedInQuery = FALSE
    /\ pc = "idle"
    /\ args = NoArgs
    /\ afterFail = FALSE
    /\ should_rerank = FALSE
    /\ retrieve_k = 0
    /\ original_contexts = <<>>
    /\ contexts = <<>>
    /\ reranking_comparison = None
    /\ answer = None
    /\ evaluation_metrics = None
    /\ result = None
    /\ error = NoError
    /\ trace = <<>>
    /\ retrieveCalls = <<>>
    /\ generateCalls = <<>>
    /\ op = NoOp

\* a call of a pure function touches nothing but its own result
LibraryCall(record) ==
    /\ pc = "idle"
    /\ op' = record
    /\ pc' = "op_done"
    /\ UNCHANGED <<pipelineVars, rerankerVars, args, afterFail, should_rerank,
                   retrieve_k, original_contexts, contexts, reranking_comparison,
                   answer, evaluation_metrics, result, error, trace, retrieveCalls,
                   generateCalls>>

\* sequences of at most n elements of S
SeqsUpTo(S, n) == UNION {[1..m -> S] : m \in 0..n}

Distinct(f) == \A a, b \in DOMAIN f : a /= b => f[a] /= f[b]

\* ---------------------------------------------------- evaluation.py, called
\* the chunk dicts evaluate_rag is given: a distance in tenths (None when the
\* store reported none) and a text
EvalChunks ==
    [score : {None, Some(0), Some(5)},
     chunk_text : {<<>>, <<"RAG", "Works">>, <<"llm">>}]

EvalQueries == {<<>>, TheQuery, <<"LLM", "a", "b", "c">>}

EvalKs == {-1} \cup (0..MaxEvalK)

\* the identifiers the metric functions are given: three retrieved ones and
\* one that is relevant but never retrieved
RetrievableIds == {ChunkId(0), ChunkId(1), ChunkId(2)}
RelevantIds == RetrievableIds \cup {ChunkId(9)}

MetricNames == {"precision", "recall", "mrr", "ndcg", "f1"}

ApplyMetric(fn, retrieved, relevant, k) ==
    CASE fn = "precision" -> precision_at_k(retrieved, relevant, k)
      [] fn = "recall" -> recall_at_k(retrieved, relevant, k)
      [] fn = "mrr" -> mean_reciprocal_rank(retrieved, relevant)
      [] fn = "ndcg" -> ndcg_at_k(retrieved, relevant, k)
      [] OTHER -> f1_score_at_k(retrieved, relevant, k)

\* evaluate_rag(retrieved_chunks, query, k)
EvaluateRagCall(chunks, query, k) ==
    LibraryCall([name |-> "evaluate_rag", chunks |-> chunks, query |-> query,
                 k |-> k, relevant_ids |-> EvalRelevantIds(chunks, query, k),
                 value |-> evaluate_rag(chunks, query, k)])

\* one of the five metric functions, called with a list of identifiers
MetricCall(fn, retrieved, relevant, k) ==
    LibraryCall([name |-> "metric", fn |-> fn, retrieved |-> retrieved,
                 relevant |-> relevant, k |-> k,
                 value |-> ApplyMetric(fn, retrieved, relevant, k)])

InitEval == LibraryInit

NextEval ==
    \/ \E chunks \in SeqsUpTo(EvalChunks, MaxEvalLen), query \in EvalQueries,
          k \in EvalKs : EvaluateRagCall(chunks, query, k)
    \/ \E fn \in MetricNames,
          retrieved \in {f \in SeqsUpTo(RetrievableIds, MaxEvalLen) : Distinct(f)},
          relevant \in SUBSET RelevantIds, k \in EvalKs :
              MetricCall(fn, retrieved, relevant, k)
    \/ Return

SpecEval == InitEval /\ [][NextEval]_vars

\* a quotient that could be computed and lies in [0, 1]
InUnit(q) == q.den > 0 /\ 0 <= q.num /\ q.num <= q.den

\* a quotient that could be computed and is 0
IsZero(q) == q.den /= 0 /\ q.num = 0

EvaluateDone == pc = "op_done" /\ op.name = "evaluate_rag"
MetricDone(fn) == pc = "op_done" /\ op.name = "metric" /\ op.fn = fn

\* C14: for every candidate list, query and k >= 0 each of the five values of
\* evaluate_rag lies in [0, 1]
C14_MetricsInUnitInterval ==
    (EvaluateDone /\ op.k >= 0) =>
        /\ InUnit(op.value.precision)
        /\ InUnit(op.value.recall)
        /\ InUnit(op.value.mrr)
        /\ InUnit(op.value.ndcg)
        /\ InUnit(op.value.f1)

C14_Witness ==
    /\ EvaluateDone
    /\ op.k = 3
    /\ Len(op.chunks) = 3
    /\ op.value.precision = Rat(2, 3)
    /\ op.value.recall = Rat(2, 2)
    /\ op.value.mrr = Rat(1, 2)
    /\ op.value.ndcg.num < op.value.ndcg.den
    /\ op.value.ndcg.num > 0

\* C15: the metric functions return 0 on degenerate input and never raise:
\* precision when k = 0 or nothing was retrieved, recall when nothing is
\* relevant, mrr when no retrieved item is relevant, ndcg when k = 0 or nothing
\* is relevant, f1 when precision and recall are both 0, and all five values
\* of evaluate_rag for an empty candidate list
C15_DegenerateInputGivesZero ==
    /\ (MetricDone("precision") /\ (op.k = 0 \/ op.retrieved = <<>>)) => IsZero(op.value)
    /\ (MetricDone("recall") /\ op.relevant = {}) => IsZero(op.value)
    /\ (MetricDone("mrr") /\ \A i \in 1..Len(op.retrieved) :
                                 op.retrieved[i] \notin op.relevant) => IsZero(op.value)
    /\ (MetricDone("ndcg") /\ (op.k = 0 \/ op.relevant = {})) => IsZero(op.value)
    /\ (/\ MetricDone("f1")
        /\ IsZero(precision_at_k(op.retrieved, op.relevant, op.k))
        /\ IsZero(recall_at_k(op.retrieved, op.relevant, op.k))) => IsZero(op.value)
    /\ (EvaluateDone /\ op.chunks = <<>>) =>
           /\ IsZero(op.value.precision)
           /\ IsZero(op.value.recall)
           /\ IsZero(op.value.mrr)
           /\ IsZero(op.value.ndcg)
           /\ IsZero(op.value.f1)

C15_Witness ==
    /\ MetricDone("precision")
    /\ op.k = 0
    /\ op.retrieved /= <<>>
    /\ op.retrieved[1] \in op.relevant
    /\ op.value = Zero

\* ------------------------------------------------------------- chunking.py
\* A text is a sequence of characters; "a" stands for any character that is
\* neither whitespace nor sentence punctuation.
Chars == {"a", ".", " "}
IsSpace(c) == c = " "
IsPunct(c) == c \in {".", "!", "?"}

\* str.split(): the maximal runs of non-whitespace characters
RECURSIVE ScanTokens(_, _, _)
ScanTokens(text, i, cur) ==
    IF i > Len(text) THEN (IF cur = <<>> THEN <<>> ELSE <<cur>>)
    ELSE IF IsSpace(text[i])
         THEN (IF cur = <<>> THEN <<>> ELSE <<cur>>) \o ScanTokens(text, i + 1, <<>>)
         ELSE ScanTokens(text, i + 1, Append(cur, text[i]))

\* _split_text_into_tokens
SplitTokens(text) == ScanTokens(text, 1, <<>>)

\* " ".join(items)
RECURSIVE Join(_)
Join(items) ==
    IF items = <<>> THEN <<>>
    ELSE IF Len(items) = 1 THEN items[1]
    ELSE items[1] \o <<" ">> \o Join(Tail(items))

\* str.strip()
RECURSIVE LStrip(_)
LStrip(text) ==
    IF text /= <<>> /\ IsSpace(text[1]) THEN LStrip(Tail(text)) ELSE text
RECURSIVE RStrip(_)
RStrip(text) ==
    IF text /= <<>> /\ IsSpace(text[Len(text)])
    THEN RStrip(SubSeq(text, 1, Len(text) - 1)) ELSE text
Strip(text) == RStrip(LStrip(text))

\* the first index >= i of text that holds no whitespace (Len(text) + 1 if none)
RECURSIVE SkipSpaces(_, _)
SkipSpaces(text, i) ==
    IF i <= Len(text) /\ IsSpace(text[i]) THEN SkipSpaces(text, i + 1) ELSE i

\* re.split(r'(?<=[.!?])\s+', text): the text is cut at every whitespace run
\* that directly follows a punctuation character
RECURSIVE ScanPieces(_, _, _)
ScanPieces(text, i, cur) ==
    IF i > Len(text) THEN <<cur>>
    ELSE IF IsSpace(text[i]) /\ i > 1 /\ IsPunct(text[i - 1])
         THEN <<cur>> \o ScanPieces(text, SkipSpaces(text, i), <<>>)
         ELSE ScanPieces(text, i + 1, Append(cur, text[i]))

\* [s.strip() for s in sentences if s.strip()]
RECURSIVE StripNonEmpty(_)
StripNonEmpty(pieces) ==
    IF pieces = <<>> THEN <<>>
    ELSE (IF Strip(pieces[1]) = <<>> THEN <<>> ELSE <<Strip(pieces[1])>>)
             \o StripNonEmpty(Tail(pieces))

\* _split_into_sentences
SplitSentences(text) == StripNonEmpty(ScanPieces(text, 1, <<>>))

\* items[start:end] for start >= 0
SliceFromTo(items, start, end) ==
    SubSeq(items, start + 1, IF end >= 0 THEN Min(end, Len(items))
                             ELSE Max(Len(items) + end, 0))

ErrRangeStep == "ValueError: range() arg 3 must not be zero"

\* a stride that skips over the overlap instead of stepping back by it
StepPlusOverlap(window, overlap) == window + overlap

\* step = chunk_size - overlap
Step(window, overlap) == window - overlap

\* list(range(0, n, step)) for step /= 0
RangeStarts(n, step) ==
    IF step > 0
    THEN [i \in 1..((n + step - 1) \div step) |-> (i - 1) * step]
    ELSE <<>>

\* the dict appended for one chunk
ChunkDict(paper, text, start, end, strategy) ==
    [paper_id |-> paper.id, title |-> paper.title, abstract |-> paper.abstract,
     chunk_text |-> text, start_token |-> start, end_token |-> end,
     chunking_strategy |-> strategy]

\* the loop shared by chunk_paper_fixed_size and chunk_paper_sentence_based:
\* one window per start of range(0, len(items), step), empty windows skipped
RECURSIVE WindowChunks(_, _, _, _, _)
WindowChunks(paper, items, starts, window, strategy) ==
    IF starts = <<>> THEN <<>>
    ELSE LET start == starts[1]
             end == start + window
             chunk_items == SliceFromTo(items, start, end)
         IN  (IF chunk_items = <<>> THEN <<>>
              ELSE <<ChunkDict(paper, Join(chunk_items), start,
                               Min(end, Len(items)), strategy)>>)
                 \o WindowChunks(paper, items, Tail(starts), window, strategy)

SlidingWindows(paper, items, window, overlap, strategy) ==
    LET step == Step(window, overlap)
    IN  IF step = 0 THEN [raised |-> ErrRangeStep, value |-> <<>>]
        ELSE [raised |-> NoError,
              value |-> WindowChunks(paper, items, RangeStarts(Len(items), step),
                                     window, strategy)]

\* chunk_paper_fixed_size with config.chunking = (chunk_size, chunk_overlap)
chunk_paper_fixed_size(paper, chunk_size, chunk_overlap) ==
    SlidingWindows(paper, SplitTokens(paper.article), chunk_size, chunk_overlap,
                   "fixed_size")

chunk_paper_sentence_based(paper, max_sentences, overlap_sentences) ==
    SlidingWindows(paper, SplitSentences(paper.article), max_sentences,
                   overlap_sentences, "sentence_based")

RECURSIVE CountTokens(_)
CountTokens(sentences) ==
    IF sentences = <<>> THEN 0
    ELSE Len(SplitTokens(sentences[1])) + CountTokens(Tail(sentences))

\* an overlap of the last sentence only
OverlapLastOne(current_chunk) ==
    IF current_chunk = <<>> THEN <<>> ELSE <<current_chunk[Len(current_chunk)]>>

\* current_chunk[-2:] if len(current_chunk) >= 2 else current_chunk
OverlapSentences(current_chunk) ==
    IF Len(current_chunk) >= 2
    THEN SubSeq(current_chunk, Len(current_chunk) - 1, Len(current_chunk))
    ELSE current_chunk

\* a loop end that drops the buffer
FlushNothing(paper, chunks, current_chunk) == chunks

\* "Add remaining chunk": the buffer left after the loop is emitted
FlushRemaining(paper, chunks, current_chunk) ==
    IF current_chunk /= <<>>
    THEN Append(chunks, ChunkDict(paper, Join(current_chunk), Len(chunks),
                                  Len(chunks) + 1, "semantic"))
    ELSE chunks

\* the loop of chunk_paper_semantic from sentence i on
RECURSIVE SemanticLoop(_, _, _, _, _, _, _)
SemanticLoop(paper, sentences, i, chunk_size_tokens, chunks, current_chunk, current_size) ==
    IF i > Len(sentences) THEN FlushRemaining(paper, chunks, current_chunk)
    ELSE LET sentence == sentences[i]
             sentence_tokens == Len(SplitTokens(sentence))
         IN  IF current_size + sentence_tokens > chunk_size_tokens
                    /\ current_chunk /= <<>>
             THEN LET overlap == OverlapSentences(current_chunk)
                      next_chunk == overlap \o <<sentence>>
                  IN  SemanticLoop(paper, sentences, i + 1, chunk_size_tokens,
                          Append(chunks, ChunkDict(paper, Join(current_chunk),
                                     Len(chunks), Len(chunks) + 1, "semantic")),
                          next_chunk, CountTokens(next_chunk))
             ELSE SemanticLoop(paper, sentences, i + 1, chunk_size_tokens, chunks,
                               Append(current_chunk, sentence),
                               current_size + sentence_tokens)

chunk_paper_semantic(paper, chunk_size_tokens) ==
    [raised |-> NoError,
     value |-> SemanticLoop(paper, SplitSentences(paper.article), 1,
                            chunk_size_tokens, <<>>, <<>>, 0)]

\* ------------------------------------------------------ chunking.py, called
\* "Sentence one. Sentence two. Sentence three."
ExampleBody == <<"a", " ", "a", ".", " ", "a", " ", "a", ".", " ", "a", " ", "a", ".">>

\* four sentences of one token each, the first unlike the others
FourSentenceBody == <<"a", ".", " ", ".", " ", ".", " ", ".">>

Bodies == SeqsUpTo(Chars, MaxBodyLen) \cup {ExampleBody, FourSentenceBody}

Paper(body) == [id |-> "0", title |-> "title", abstract |-> "abstract",
                article |-> body]

Windows == 1..MaxWindow
Overlaps == 0..MaxWindow

ChunkFixedSizeCall(body, chunk_size, chunk_overlap) ==
    LET res == chunk_paper_fixed_size(Paper(body), chunk_size, chunk_overlap)
    IN  LibraryCall([name |-> "chunk_paper_fixed_size", body |-> body,
                     window |-> chunk_size, overlap |-> chunk_overlap,
                     raised |-> res.raised, value |-> res.value])

ChunkSentenceBasedCall(body, max_sentences, overlap_sentences) ==
    LET res == chunk_paper_sentence_based(Paper(body), max_sentences,
                                          overlap_sentences)
    IN  LibraryCall([name |-> "chunk_paper_sentence_based", body |-> body,
                     window |-> max_sentences, overlap |-> overlap_sentences,
                     raised |-> res.raised, value |-> res.value])

ChunkSemanticCall(body, chunk_size_tokens) ==
    LET res == chunk_paper_semantic(Paper(body), chunk_size_tokens)
    IN  LibraryCall([name |-> "chunk_paper_semantic", body |-> body,
                     window |-> chunk_size_tokens, overlap |-> 0,
                     raised |-> res.raised, value |-> res.value])

InitChunk == LibraryInit

NextChunk ==
    \/ \E body \in Bodies, w \in Windows, o \in Overlaps : ChunkFixedSizeCall(body, w, o)
    \/ \E body \in Bodies, w \in Windows, o \in Overlaps :
           ChunkSentenceBasedCall(body, w, o)
    \/ \E body \in Bodies, w \in Windows : ChunkSemanticCall(body, w)
    \/ Return

SpecChunk == InitChunk /\ [][NextChunk]_vars

\* ------------------------------------------------------- chunking, claims
ChunkNames == {"chunk_paper_fixed_size", "chunk_paper_sentence_based",
               "chunk_paper_semantic"}
WindowedNames == {"chunk_paper_fixed_size", "chunk_paper_sentence_based"}
ChunkingDone == pc = "op_done" /\ op.name \in ChunkNames
WindowedDone == pc = "op_done" /\ op.name \in WindowedNames
FixedSizeDone == pc = "op_done" /\ op.name = "chunk_paper_fixed_size"

\* 0 <= overlap < window (the semantic strategy takes no overlap)
ValidConfig == op.overlap >= 0 /\ op.overlap < op.window

IsBlank(text) == \A i \in 1..Len(text) : IsSpace(text[i])

\* the units a strategy's window is measured in
BodyTokens == SplitTokens(op.body)
BodySentences == SplitSentences(op.body)
BodyItems ==
    IF op.name = "chunk_paper_sentence_based" THEN BodySentences ELSE BodyTokens

\* C16 as stated: with a valid configuration, zero chunks iff the body is the
\* empty string, and no error
C16_Original ==
    (ChunkingDone /\ ValidConfig) =>
        /\ op.raised = NoError
        /\ (op.value = <<>>) <=> (op.body = <<>>)

\* C16: with a valid configuration every strategy returns without an error,
\* and returns zero chunks iff the body is empty or consists of whitespace only
C16_ZeroChunksIffBlank ==
    (ChunkingDone /\ ValidConfig) =>
        /\ op.raised = NoError
        /\ (op.value = <<>>) <=> IsBlank(op.body)

C16_Witness ==
    /\ ChunkingDone
    /\ op.name = "chunk_paper_semantic"
    /\ op.body = <<" ", " ">>
    /\ op.raised = NoError
    /\ op.value = <<>>

\* C17: for fixed_size and sentence_based with 0 <= o < w over a body of N > 0
\* items, the first window starts at 0, each next window starts no later than
\* the previous window's end, the last window ends at N, every index 0..N-1
\* lies in some window, and each chunk's text is the items of its window
C17_WindowsCoverBody ==
    (WindowedDone /\ ValidConfig /\ BodyItems /= <<>>) =>
        LET v == op.value
            N == Len(BodyItems)
        IN  /\ op.raised = NoError
            /\ v /= <<>>
            /\ v[1].start_token = 0
            /\ \A i \in 2..Len(v) : v[i].start_token <= v[i - 1].end_token
            /\ v[Len(v)].end_token = N
            /\ \A t \in 0..(N - 1) :
                   \E i \in 1..Len(v) : v[i].start_token <= t /\ t < v[i].end_token
            /\ \A i \in 1..Len(v) :
                   v[i].chunk_text =
                       Join(SliceFromTo(BodyItems, v[i].start_token, v[i].end_token))

C17_Witness ==
    /\ WindowedDone
    /\ op.name = "chunk_paper_sentence_based"
    /\ op.body = ExampleBody
    /\ op.window = 2
    /\ op.overlap = 1
    /\ Len(op.value) = 3
    /\ op.value[2].start_token = 1
    /\ op.value[2].end_token = 3

\* C18: for every strategy and valid overlap, a body with at least one item
\* and fewer items than one window (tokens for fixed_size and semantic,
\* sentences for sentence_based) yields exactly one chunk, whose text is the
\* whole body and, for the two windowed strategies, whose window is 0..N
C18_ShortBodyOneChunk ==
    (/\ ChunkingDone
     /\ ValidConfig
     /\ BodyItems /= <<>>
     /\ Len(BodyItems) < op.window) =>
        /\ op.raised = NoError
        /\ Len(op.value) = 1
        /\ op.value[1].chunk_text = Join(BodyItems)
        /\ op.name \in WindowedNames =>
               /\ op.value[1].start_token = 0
               /\ op.value[1].end_token = Len(BodyItems)

\* C19: fixed_size and sentence_based chunking with window - overlap <= 0
\* raise an error, whatever the body
C19_NonPositiveStrideRejected ==
    (WindowedDone /\ op.window - op.overlap <= 0) => op.raised /= NoError

\* C20: fixed_size chunking with chunk_size = 2 and overlap = 1 over a body of
\* at least one window (N >= 2 tokens) emits chunks that start at 0, 1, 2, ...
\* in order, each exactly 2 tokens wide
C20_UnitStrideFullWidth ==
    (FixedSizeDone /\ op.window = 2 /\ op.overlap = 1 /\ Len(BodyTokens) >= 2) =>
        /\ op.raised = NoError
        /\ \A i \in 1..Len(op.value) :
               /\ op.value[i].start_token = i - 1
               /\ op.value[i].end_token - op.value[i].start_token = 2

\* ----------------------------------------------------- evaluation, claims
\* C21: for k >= 0, evaluate_rag marks chunk_<i> relevant iff i is a position
\* of the top-k window and the candidate there has a score strictly below 0.5
\* (a missing score is 1.0, a score of 0 is a score) or more than 0.3 of the
\* distinct lower-cased query words occur among its lower-cased words (an
\* empty query has overlap 0)
C21_RelevanceRule ==
    (EvaluateDone /\ op.k >= 0) =>
        LET n == Min(op.k, Len(op.chunks))
            query_words == WordSet(op.query)
            LowScore(c) == ~IsNone(c.score) /\ Val(c.score) < 5
            HighOverlap(c) ==
                /\ query_words /= {}
                /\ 10 * Cardinality(query_words \cap WordSet(c.chunk_text))
                       > 3 * Cardinality(query_words)
        IN  /\ op.relevant_ids \subseteq {ChunkId(i) : i \in 0..(n - 1)}
            /\ \A i \in 0..(n - 1) :
                   ChunkId(i) \in op.relevant_ids
                       <=> (LowScore(op.chunks[i + 1]) \/ HighOverlap(op.chunks[i + 1]))

\* a window of three: a score of 0 with no text, a missing score with matching
\* text, and a score of exactly 0.5 with text that matches a quarter of the
\* query words
C21_Witness ==
    /\ EvaluateDone
    /\ op.k = 3
    /\ op.query = <<"LLM", "a", "b", "c">>
    /\ op.chunks = <<[score |-> Some(0), chunk_text |-> <<>>],
                     [score |-> None, chunk_text |-> <<"llm">>],
                     [score |-> Some(5), chunk_text |-> <<"llm">>]>>
    /\ op.relevant_ids = {ChunkId(0)}

\* a quotient that could be computed and is exactly 1
IsOne(q) == q.den /= 0 /\ q.num = q.den

\* all relevant items of the list precede all its non-relevant items
RelevantFirst(retrieved, relevant) ==
    \A i, j \in 1..Len(retrieved) :
        (i < j /\ retrieved[j] \in relevant) => retrieved[i] \in relevant

\* C22 as stated, for lists that hold a relevant item: ndcg_at_k is 1 for
\* every relevant-first list, non-empty relevant set and k > 0
C22_Original ==
    (/\ MetricDone("ndcg")
     /\ op.k > 0
     /\ op.relevant /= {}
     /\ \E i \in 1..Len(op.retrieved) : op.retrieved[i] \in op.relevant
     /\ RelevantFirst(op.retrieved, op.relevant)) => IsOne(op.value)

\* C22: ndcg_at_k is exactly 1 for every relevant-first list, non-empty
\* relevant set S and k > 0 where the first k items of the list hold
\* min(|S|, k) relevant items
C22_PerfectOrderGivesOne ==
    (/\ MetricDone("ndcg")
     /\ op.k > 0
     /\ op.relevant /= {}
     /\ RelevantFirst(op.retrieved, op.relevant)
     /\ CountRelevant(PySlice(op.retrieved, op.k), op.relevant)
            = Min(Cardinality(op.relevant), op.k)) => IsOne(op.value)

\* three relevant items of which two are retrieved, first, and k = 2
C22_Witness ==
    /\ MetricDone("ndcg")
    /\ op.k = 2
    /\ op.retrieved = <<ChunkId(0), ChunkId(1), ChunkId(2)>>
    /\ op.relevant = {ChunkId(0), ChunkId(1), ChunkId(9)}
    /\ op.value = Rat(1630930, 1630930)

\* ------------------------------------------------ semantic chunking, claims
SemanticDone == pc = "op_done" /\ op.name = "chunk_paper_semantic"

TokensOf(sentences) == Len(SplitTokens(Join(sentences)))

\* the buffer after sentence i of the body has been taken, as C23 describes it
RECURSIVE BufferAfter(_, _, _)
BufferAfter(sentences, size, i) ==
    IF i = 0 THEN <<>>
    ELSE LET before == BufferAfter(sentences, size, i - 1)
             n == Len(before)
         IN  IF before /= <<>> /\ TokensOf(before) + TokensOf(<<sentences[i]>>) > size
             THEN (IF n >= 2 THEN <<before[n - 1], before[n]>> ELSE before)
                      \o <<sentences[i]>>
             ELSE Append(before, sentences[i])

\* sentence i finds a non-empty buffer that it would push over the budget
ClosesAt(sentences, size, i) ==
    LET before == BufferAfter(sentences, size, i - 1)
    IN  before /= <<>> /\ TokensOf(before) + TokensOf(<<sentences[i]>>) > size

\* the sentences of the j-th chunk that C23 describes: the buffer closed by
\* the j-th closing sentence, or the buffer left after the last sentence
ExpectedBuffer(sentences, size, j) ==
    LET closing == {i \in 1..Len(sentences) : ClosesAt(sentences, size, i)}
    IN  IF j <= Cardinality(closing)
        THEN LET i == CHOOSE c \in closing :
                          Cardinality({d \in closing : d <= c}) = j
             IN  BufferAfter(sentences, size, i - 1)
        ELSE BufferAfter(sentences, size, Len(sentences))

ExpectedCount(sentences, size) ==
    Cardinality({i \in 1..Len(sentences) : ClosesAt(sentences, size, i)})
        + (IF sentences = <<>> THEN 0 ELSE 1)

\* C23: chunk_paper_semantic emits one chunk for every sentence that finds a
\* non-empty buffer it would push over chunk_size, holding that buffer, and
\* one for the non-empty buffer left at the end; after a close the buffer is
\* the last two sentences of the closed chunk (its only one when it has one)
\* and the closing sentence; the i-th chunk (0-based) has offsets i and i + 1
C23_SemanticBuffering ==
    SemanticDone =>
        LET v == op.value
        IN  /\ op.raised = NoError
            /\ Len(v) = ExpectedCount(BodySentences, op.window)
            /\ \A j \in 1..Len(v) :
                   /\ v[j].chunk_text
                          = Join(ExpectedBuffer(BodySentences, op.window, j))
                   /\ v[j].start_token = j - 1
                   /\ v[j].end_token = j
                   /\ v[j].chunking_strategy = "semantic"

\* four sentences of one token under a budget of 3: the fourth closes the
\* chunk of the first three, and the second and third seed the last chunk
C23_Witness ==
    /\ SemanticDone
    /\ op.body = FourSentenceBody
    /\ op.window = 3
    /\ Len(op.value) = 2
    /\ op.value[1].chunk_text = Join(SubSeq(BodySentences, 1, 3))
    /\ op.value[2].chunk_text = Join(SubSeq(BodySentences, 2, 4))
    /\ op.value[2].start_token = 1
    /\ op.value[2].end_token = 2

\* C25: when no sentence of the body has more than chunk_size tokens, no
\* chunk of chunk_paper_semantic has more than chunk_size tokens
C25_ChunksWithinBudget ==
    (SemanticDone /\ \A i \in 1..Len(BodySentences) :
                         Len(SplitTokens(BodySentences[i])) <= op.window) =>
        \A j \in 1..Len(op.value) :
            Len(SplitTokens(op.value[j].chunk_text)) <= op.window

RerankRan == InQuery /\ \E i \in 1..Len(trace) : trace[i] = "rerank"

\* C24: once the rerank stage of an answer_query call (with top_k >= 0) has
\* run, the pipeline's reranker is the one passed to the constructor if one
\* was passed, and a default one only if none was passed
C24_SuppliedRerankerUsed ==
    (RerankRan /\ args.top_k >= 0) => self_reranker = (IF ctor_reranker THEN "supplied" ELSE "default")

\* C27: in every list returned by rerank, and in the reranked list of
\* compare_retrieval, two items with equal rerank_score stand in the order of
\* their original_rank; when all candidates of a rerank call score the same,
\* the output is the input order
C27_TiesKeepInputOrder ==
    /\ \A l \in RerankedLists :
           \A i, j \in 1..Len(l) :
               (i < j /\ l[i].rerank_score = l[j].rerank_score)
                   => l[i].original_rank < l[j].original_rank
    /\ (/\ RerankDone
        /\ op.raised = NoError
        /\ \A i, j \in 1..Len(op.scores) : op.scores[i] = op.scores[j]) =>
           \A i \in 1..Len(op.value) : op.value[i].original_rank = i

\* the second and third candidate tie above the first
C27_Witness ==
    /\ RerankDone
    /\ op.raised = NoError
    /\ Len(op.chunks) = 3
    /\ op.scores[1] < op.scores[2]
    /\ op.scores[2] = op.scores[3]
    /\ Len(op.value) = 3
    /\ op.value[1].original_rank = 2
    /\ op.value[2].original_rank = 3
    /\ op.value[3].original_rank = 1

====
